---- MODULE Spec2Model ----
(***************************************************************************)
(* The Carousel component of apps/website/src/components/content/          *)
(* Carousel.tsx as a state machine: the move() callback, the scroll        *)
(* handler scrolled(), the pause gate interacted(), the auto-scroll        *)
(* effect, and the browser surface they act on (a scrollable element with  *)
(* smooth scrolling, scroll events and timers).                            *)
(*                                                                         *)
(* Lengths are integers counting 1/Sub of a CSS pixel, so that scrollLeft  *)
(* can be fractional (as it is on scaled displays and during a smooth      *)
(* scroll) and Math.round is not the identity.  scrollWidth and            *)
(* clientWidth are whole pixels, as the DOM reports them.  Time is counted *)
(* in clock ticks; timers are counted down, and the browser's tables of    *)
(* pending timeouts and live intervals are kept beside the refs that name  *)
(* them.  A React state update and the re-run of the effects that depend   *)
(* on it are taken in one step with the handler that caused them.          *)
(***************************************************************************)
EXTENDS Integers, FiniteSets, Bags, TLC

VARIABLES
    geo,            \* layout: [n, w, cw, sw] item count, item width, clientWidth, scrollWidth
    mounted,        \* ref.current is the element
    auto,           \* the auto prop (0 stands for null / absent)
    scrollLeft,     \* current.scrollLeft
    anim,           \* target of the smooth scroll in flight, or None
    last,           \* last.current: [some, from, to]; some = FALSE is null
    listeners,      \* bag of the offsets captured by move()'s scroll listeners
    paused,         \* the paused React state
    pausedTimeout,  \* pausedTimeout.current: ticks until the timeout it names fires, or None
    interval,       \* the interval of the effect's last run: ticks until it fires, or None
    timeouts,       \* the browser's pending timeouts: bag of ticks until each fires
    intervals,      \* the browser's live intervals: bag of <<ticks until it fires, period>>
    state,          \* the state React state: "start" | "scrolling" | "end"
    now,            \* ticks since mount while only the scheduler has acted, up to MaxClock; then None
    lastCall,       \* the latest call of move() by the host itself: [dir, at, target]
    nexts,          \* the host's move("right") calls since offset 0, each settled alone; else None
    sinceActive,    \* ticks since the scheduler last (re)started or advanced; None when not active
    sinceInteracted \* ticks since interacted() last started a cooldown; None once a cooldown has expired

vars == <<geo, mounted, auto, scrollLeft, anim, last, listeners, paused,
          pausedTimeout, interval, timeouts, intervals, state, now, lastCall,
          nexts, sinceActive, sinceInteracted>>

----------------------------------------------------------------------------
(* Bounds *)

Sub == 2            \* units per CSS pixel
MaxItems == 5       \* most images a carousel is given, where move() is called directly
MaxLive == 4        \* most images a carousel is given, where the user and the timers act
Auto == 2           \* the configured auto interval, in ticks
MaxListeners == 3   \* most scroll listeners move() may have attached at once

MaxClock == 4 * Auto

----------------------------------------------------------------------------
(* Values *)

None == -1

Min(a, b) == IF a < b THEN a ELSE b
Max(a, b) == IF a > b THEN a ELSE b

\* Math.round: the nearest whole pixel, a tie going up
Round(x) == Sub * ((2 * x + Sub) \div (2 * Sub))

\* Items per page: "basis-full md:basis-1/3"
PerPage == {1, 3}

\* One pixel; the width of an item that is laid out
ItemWidth == Sub

\* The widths of the first child: not displayed, one pixel, two pixels
Widths == {0, ItemWidth, 2 * ItemWidth}

\* The layout of n items, k to a page, each w wide.  w = 0 is the carousel
\* not being displayed: every measurement is 0.
Geometry(n, k, w) ==
    [n |-> n, w |-> w, cw |-> k * w, sw |-> Max(n, k) * w]

Geometries ==
    {Geometry(n, k, w) : n \in 0..MaxItems, k \in PerPage, w \in Widths}

MaxScroll == geo.sw - geo.cw

NoRange == [some |-> FALSE, from |-> 0, to |-> 0]
Range(a, b) == [some |-> TRUE, from |-> a, to |-> b]

NoCall == [dir |-> "none", at |-> 0, target |-> 0]

----------------------------------------------------------------------------
(* move(direction) *)

\* current && current.children[0]
HasChild == mounted /\ geo.n > 0

\* move() stopping at either end instead of wrapping
MoveTargetClamped(s, dir) ==
    LET raw == s + geo.w * (IF dir = "left" THEN -1 ELSE 1)
        offset == Round(raw)
    IN  IF offset < 0 THEN 0
        ELSE IF offset > geo.sw - geo.cw THEN Round(geo.sw - geo.cw)
        ELSE offset

\* move() wrapping from the start to the start
MoveTargetLeftToStart(s, dir) ==
    LET raw == s + geo.w * (IF dir = "left" THEN -1 ELSE 1)
        offset == Round(raw)
    IN  IF offset < 0 THEN 0
        ELSE IF offset > geo.sw - geo.cw THEN 0
        ELSE offset

\* move() comparing the offset with the ends before it is rounded
MoveTargetUnrounded(s, dir) ==
    LET raw == s + geo.w * (IF dir = "left" THEN -1 ELSE 1)
    IN  IF raw < 0 THEN Round(geo.sw - geo.cw)
        ELSE IF raw > geo.sw - geo.cw THEN 0
        ELSE Round(raw)

\* The offset move() scrolls to from scroll position s
MoveTarget(s, dir) ==
    LET raw == s + geo.w * (IF dir = "left" THEN -1 ELSE 1)
        offset == Round(raw)
    IN  IF offset < 0 THEN Round(geo.sw - geo.cw)
        ELSE IF offset > geo.sw - geo.cw THEN 0
        ELSE offset

\* last.current as move() sets it
MoveRange(s, offset) == Range(Min(s, offset), Max(s, offset))

CanMove == BagCardinality(listeners) < MaxListeners

Move(dir) ==
    IF ~HasChild
    THEN UNCHANGED <<listeners, last, anim>>
    ELSE LET offset == MoveTarget(scrollLeft, dir)
         IN  /\ listeners' = listeners (+) SetToBag({offset})
             /\ last' = MoveRange(scrollLeft, offset)
             /\ anim' = IF offset = scrollLeft THEN None ELSE offset

----------------------------------------------------------------------------
(* The auto-scroll effect and interacted() *)

\* The effect not looking at paused
AutoScrollEffectUnpaused(a, p) == IF a = 0 THEN None ELSE a

\* The effect starting its interval a tick late
AutoScrollEffectLate(a, p) == IF a = 0 \/ p THEN None ELSE a + 1

\* The effect starting no interval
AutoScrollEffectNever(a, p) == None

\* The interval the effect leaves running for props and state (a, p)
AutoScrollEffect(a, p) == IF a = 0 \/ p THEN None ELSE a

\* interacted() resuming after one interval
CooldownSingle(a) == a

\* The cooldown interacted() starts
Cooldown(a) == a * 2

\* The stopwatch of the scheduler for props and state (a, p)
Stopwatch(a, p) == IF a = 0 \/ p THEN None ELSE 0

\* setTimeout, setInterval: one more timer in the browser's table
SetTimer(table, t) == table (+) SetToBag({t})

\* clearTimeout, clearInterval leaving the timer running
ClearTimersNoOp(table, ts) == table

\* clearTimeout, clearInterval: the timers ts leave the browser's table
ClearTimers(table, ts) == table (-) SetToBag(ts)

\* The timeout pausedTimeout.current names, if it is still pending
Named == IF pausedTimeout = None THEN {} ELSE {pausedTimeout}

\* The interval the effect's last run started, if any
Owned == IF interval = None THEN {} ELSE {<<interval, auto>>}

\* The effect re-running for props and state (a, p): the cleanup of the
\* run before, then the new run
EffectRun(a, p) ==
    /\ interval' = AutoScrollEffect(a, p)
    /\ intervals' =
        IF AutoScrollEffect(a, p) = None
        THEN ClearTimers(intervals, Owned)
        ELSE SetTimer(ClearTimers(intervals, Owned),
                      <<AutoScrollEffect(a, p), a>>)

\* interacted() not looking at auto
InteractedAlways ==
    /\ paused' = TRUE
    /\ timeouts' = SetTimer(ClearTimers(timeouts, Named), Cooldown(auto))
    /\ pausedTimeout' = Cooldown(auto)
    /\ IF paused
       THEN UNCHANGED <<interval, intervals>>
       ELSE EffectRun(auto, TRUE)
    /\ sinceActive' = None
    /\ sinceInteracted' = 0

\* interacted(): the effect re-runs only when paused changes
Interacted ==
    IF auto # 0
    THEN /\ paused' = TRUE
         /\ timeouts' = SetTimer(ClearTimers(timeouts, Named), Cooldown(auto))
         /\ pausedTimeout' = Cooldown(auto)
         /\ IF paused
            THEN UNCHANGED <<interval, intervals>>
            ELSE EffectRun(auto, TRUE)
         /\ sinceActive' = None
         /\ sinceInteracted' = 0
    ELSE UNCHANGED <<paused, pausedTimeout, interval, timeouts, intervals,
                     sinceActive, sinceInteracted>>

----------------------------------------------------------------------------
(* scrolled() and the listeners of move(), on a scroll event at position p *)

\* scrolled() allowing a whole item width around the last range
UserScrolledWide(p) ==
    /\ last.some
    /\ \/ p < last.from - geo.w
       \/ p > last.to + geo.w

\* The scroll position is outside the last range by more than half an item
UserScrolled(p) ==
    /\ last.some
    /\ \/ 2 * p < 2 * last.from - geo.w
       \/ 2 * p > 2 * last.to + geo.w

\* scrolled() comparing the rounded scroll position with the end
BoundaryOfRounded(p) ==
    IF p = 0 THEN "start"
    ELSE IF Round(p) + geo.cw = geo.sw THEN "end"
    ELSE "scrolling"

\* The boundary state scrolled() sets
BoundaryOf(p) ==
    IF p = 0 THEN "start"
    ELSE IF p + geo.cw = geo.sw THEN "end"
    ELSE "scrolling"

\* The listeners whose offset the position rounds to
Reached(p) == {o \in DOMAIN listeners : Round(p) = o}

\* A listener setting the range to the offset it waited for
CollapsedAtTarget(p) == Range(Round(p), Round(p))

\* last.current as a listener that has reached its offset sets it
Collapsed(p) == Range(p, p)

Scrolled(p) ==
    IF ~HasChild
    THEN UNCHANGED <<paused, pausedTimeout, interval, timeouts, intervals,
                     sinceActive, sinceInteracted, state>>
    ELSE /\ IF UserScrolled(p)
            THEN Interacted
            ELSE UNCHANGED <<paused, pausedTimeout, interval, timeouts,
                             intervals, sinceActive, sinceInteracted>>
         /\ state' = BoundaryOf(p)

Listeners(p) ==
    IF Reached(p) = {}
    THEN UNCHANGED <<listeners, last>>
    ELSE /\ listeners' = [o \in DOMAIN listeners \ Reached(p) |-> listeners[o]]
         /\ last' = Collapsed(p)

\* A scroll event with the element at p: React's onScroll, then the listeners
ScrollEvent(p) ==
    /\ scrollLeft' = p
    /\ Scrolled(p)
    /\ Listeners(p)

----------------------------------------------------------------------------
(* The browser *)

\* The smooth scroll in flight moves the element toward its target
AnimStep ==
    /\ mounted
    /\ anim # None
    /\ \E p \in 0..MaxScroll :
        /\ IF anim > scrollLeft
           THEN scrollLeft < p /\ p <= anim
           ELSE anim <= p /\ p < scrollLeft
        /\ ScrollEvent(p)
        /\ anim' = IF p = anim THEN None ELSE anim
    /\ UNCHANGED <<geo, mounted, auto, now, lastCall, nexts>>

\* The user scrolls the element; a smooth scroll in flight ends
UserScroll ==
    /\ mounted
    /\ \E p \in 0..MaxScroll :
        /\ p # scrollLeft
        /\ ScrollEvent(p)
    /\ anim' = None
    /\ now' = None
    /\ UNCHANGED <<geo, mounted, auto, lastCall, nexts>>

Countdown(t) == IF t = None THEN None ELSE t - 1

\* The pending timeouts a tick later
TimeoutsElapsed ==
    [t \in {u - 1 : u \in DOMAIN timeouts} |-> timeouts[t + 1]]

\* The live intervals a tick later
IntervalsElapsed ==
    [t \in {<<u[1] - 1, u[2]>> : u \in DOMAIN intervals} |->
        intervals[<<t[1] + 1, t[2]>>]]

\* A tick of the clock; a timer that is due fires first
Tick ==
    /\ \A t \in DOMAIN timeouts : t # 0
    /\ \A t \in DOMAIN intervals : t[1] # 0
    /\ interval' = Countdown(interval)
    /\ pausedTimeout' = Countdown(pausedTimeout)
    /\ timeouts' = TimeoutsElapsed
    /\ intervals' = IntervalsElapsed
    /\ now' = IF now = None THEN None ELSE Min(now + 1, MaxClock)
    /\ sinceActive' = IF sinceActive = None THEN None
                      ELSE Min(sinceActive + 1, Auto + 1)
    /\ sinceInteracted' = IF sinceInteracted = None THEN None
                          ELSE Min(sinceInteracted + 1, Cooldown(Auto) + 1)
    /\ UNCHANGED <<geo, mounted, auto, scrollLeft, anim, last, listeners,
                   paused, state, lastCall, nexts>>

----------------------------------------------------------------------------
(* The component *)

\* The interval callback: if (!ref.current) return; move("right")
IntervalFire ==
    /\ CanMove
    /\ \E t \in DOMAIN intervals :
        /\ t[1] = 0
        /\ intervals' = (intervals (-) SetToBag({t})) (+) SetToBag({<<t[2], t[2]>>})
        /\ interval' = IF interval = 0 THEN t[2] ELSE interval
    /\ sinceActive' = 0
    /\ Move("right")
    /\ UNCHANGED <<geo, mounted, auto, scrollLeft, paused, pausedTimeout,
                   timeouts, state, now, lastCall, nexts, sinceInteracted>>

\* The cooldown callback: setPaused(false); the effect re-runs if paused changed
TimeoutFire ==
    /\ BagIn(0, timeouts)
    /\ timeouts' = timeouts (-) SetToBag({0})
    /\ pausedTimeout' = IF pausedTimeout = 0 THEN None ELSE pausedTimeout
    /\ IF mounted
       THEN /\ paused' = FALSE
            /\ IF paused
               THEN EffectRun(auto, FALSE)
               ELSE UNCHANGED <<interval, intervals>>
            /\ sinceActive' = IF paused THEN Stopwatch(auto, FALSE) ELSE sinceActive
       ELSE UNCHANGED <<paused, interval, intervals, sinceActive>>
    /\ sinceInteracted' = None
    /\ UNCHANGED <<geo, mounted, auto, scrollLeft, anim, last, listeners,
                   state, now, lastCall, nexts>>

\* The buttons can be clicked where the carousel is displayed
Displayed == mounted /\ geo.cw > 0

\* The Previous button: interacted(); move("left"); disabled at "start"
ClickPrevious ==
    /\ Displayed
    /\ state # "start"
    /\ CanMove
    /\ Interacted
    /\ Move("left")
    /\ now' = None
    /\ UNCHANGED <<geo, mounted, auto, scrollLeft, state, lastCall, nexts>>

\* The Next button calling move("right") alone
ClickNextMoveOnly ==
    /\ Displayed
    /\ state # "end"
    /\ CanMove
    /\ Move("right")
    /\ now' = None
    /\ UNCHANGED <<geo, mounted, auto, scrollLeft, state, lastCall, nexts,
                   paused, pausedTimeout, interval, timeouts, intervals,
                   sinceActive, sinceInteracted>>

\* The Next button: interacted(); move("right"); disabled at "end"
ClickNext ==
    /\ Displayed
    /\ state # "end"
    /\ CanMove
    /\ Interacted
    /\ Move("right")
    /\ now' = None
    /\ UNCHANGED <<geo, mounted, auto, scrollLeft, state, lastCall, nexts>>

\* The host renders the carousel with another auto prop: the effect re-runs
SetAuto ==
    /\ mounted
    /\ \E a \in {0, Auto} :
        /\ a # auto
        /\ auto' = a
        /\ EffectRun(a, paused)
        /\ sinceActive' = Stopwatch(a, paused)
    /\ now' = None
    /\ UNCHANGED <<geo, mounted, scrollLeft, anim, last, listeners, paused,
                   pausedTimeout, timeouts, state, lastCall, nexts,
                   sinceInteracted>>

\* The component unmounts: the effect's cleanup runs, the ref is cleared
Unmount ==
    /\ mounted
    /\ mounted' = FALSE
    /\ interval' = None
    /\ intervals' = ClearTimers(intervals, Owned)
    /\ anim' = None
    /\ sinceActive' = None
    /\ now' = None
    /\ UNCHANGED <<geo, auto, scrollLeft, last, listeners, paused,
                   pausedTimeout, timeouts, state, lastCall, nexts,
                   sinceInteracted>>

----------------------------------------------------------------------------
(* The component in use *)

Mounted(g, a) ==
    /\ geo = g
    /\ mounted = TRUE
    /\ auto = a
    /\ scrollLeft = 0
    /\ anim = None
    /\ last = NoRange
    /\ listeners = EmptyBag
    /\ paused = FALSE
    /\ pausedTimeout = None
    /\ interval = AutoScrollEffect(a, FALSE)
    /\ timeouts = EmptyBag
    /\ intervals = IF AutoScrollEffect(a, FALSE) = None
                   THEN EmptyBag
                   ELSE SetToBag({<<AutoScrollEffect(a, FALSE), a>>})
    /\ state = "start"
    /\ now = 0
    /\ lastCall = NoCall
    /\ nexts = 0
    /\ sinceActive = Stopwatch(a, FALSE)
    /\ sinceInteracted = None

Live == {g \in Geometries : g.n <= MaxLive /\ g.w <= ItemWidth}

Init == \E g \in Live, a \in {0, Auto} : Mounted(g, a)

Next ==
    \/ Tick
    \/ IntervalFire
    \/ TimeoutFire
    \/ ClickPrevious
    \/ ClickNext
    \/ AnimStep
    \/ UserScroll
    \/ SetAuto
    \/ Unmount

Spec == Init /\ [][Next]_vars

----------------------------------------------------------------------------
(* move() called by the host itself, at any scroll position *)

\* The count of the host's settled move("right") calls since offset 0
NextsAfterCall(dir) ==
    IF dir = "right" /\ anim = None /\ nexts # None
    THEN Min(nexts + 1, MaxItems + 1)
    ELSE None

MoveCall ==
    /\ CanMove
    /\ \E dir \in {"left", "right"} :
        /\ Move(dir)
        /\ lastCall' = IF HasChild
                       THEN [dir |-> dir, at |-> scrollLeft,
                             target |-> MoveTarget(scrollLeft, dir)]
                       ELSE NoCall
        /\ nexts' = NextsAfterCall(dir)
    /\ now' = None
    /\ UNCHANGED <<geo, mounted, auto, scrollLeft, paused, pausedTimeout,
                   interval, timeouts, intervals, state, sinceActive,
                   sinceInteracted>>

\* A carousel without auto-scroll that the user has left at position p
InitMove ==
    \E g \in Geometries : \E p \in 0..(g.sw - g.cw) :
        /\ geo = g
        /\ mounted = TRUE
        /\ auto = 0
        /\ scrollLeft = p
        /\ anim = None
        /\ last = NoRange
        /\ listeners = EmptyBag
        /\ paused = FALSE
        /\ pausedTimeout = None
        /\ interval = None
        /\ timeouts = EmptyBag
        /\ intervals = EmptyBag
        /\ state = BoundaryOf(p)
        /\ now = None
        /\ lastCall = NoCall
        /\ nexts = IF p = 0 THEN 0 ELSE None
        /\ sinceActive = None
        /\ sinceInteracted = None

NextMove ==
    \/ MoveCall
    \/ AnimStep

SpecMove == InitMove /\ [][NextMove]_vars

----------------------------------------------------------------------------
(* Auto-scroll alone: nobody touches the carousel, and a smooth scroll     *)
(* takes less than the interval                                            *)

TickSettled ==
    /\ anim = None \/ interval > 1
    /\ Tick

InitAuto == \E g \in Geometries : Mounted(g, Auto)

NextAuto ==
    \/ TickSettled
    \/ IntervalFire
    \/ AnimStep

SpecAuto == InitAuto /\ [][NextAuto]_vars

SpecAutoFair ==
    /\ SpecAuto
    /\ WF_vars(TickSettled)
    /\ WF_vars(IntervalFire)
    /\ WF_vars(AnimStep)

----------------------------------------------------------------------------
(* Auto-scroll alone, a smooth scroll taking any time: the interval may    *)
(* fire again before the scroll it started has ended                       *)

NextUntouched ==
    \/ Tick
    \/ IntervalFire
    \/ AnimStep
    \/ TimeoutFire

SpecUntouched == InitAuto /\ [][NextUntouched]_vars

----------------------------------------------------------------------------
(* Auto-scroll set for good, the user coming and going: every timer that   *)
(* is due fires, the clock goes on, a smooth scroll goes on                *)

InitResume == \E g \in Live : Mounted(g, Auto)

NextResume ==
    \/ Tick
    \/ IntervalFire
    \/ TimeoutFire
    \/ AnimStep
    \/ ClickPrevious
    \/ ClickNext
    \/ UserScroll

SpecResume == InitResume /\ [][NextResume]_vars

SpecResumeFair ==
    /\ SpecResume
    /\ WF_vars(Tick)
    /\ WF_vars(IntervalFire)
    /\ WF_vars(TimeoutFire)
    /\ WF_vars(AnimStep)

----------------------------------------------------------------------------
(* Claims *)

AtRest == anim = None

\* The scroll pages of the layout: the positions a move("right") walk from
\* offset 0 rests at before it wraps
Pages == MaxScroll \div geo.w + 1

\* C1 as stated: after n settled moveNext() calls from offset 0, with n the
\* item count, the viewport is at offset 0, whatever the visible width.
C1_FullCycleByItems ==
    (geo.w > 0 /\ geo.n >= 1 /\ AtRest /\ nexts = geo.n) => scrollLeft = 0

\* C1 amended: after as many settled moveNext() calls from offset 0 as the
\* layout has scroll pages, (scrollWidth - clientWidth) / itemWidth + 1, the
\* viewport is at offset 0; with one item per page that is the item count n.
C1_FullCycleByPages ==
    (geo.w > 0 /\ geo.n >= 1 /\ AtRest /\ nexts # None) =>
        /\ nexts = Pages => scrollLeft = 0
        /\ (geo.cw = geo.w /\ nexts = geo.n) => scrollLeft = 0
        /\ (nexts > 0 /\ nexts < Pages) => scrollLeft = nexts * geo.w

C1_Witness ==
    /\ geo = Geometry(MaxItems, 3, ItemWidth)
    /\ AtRest
    /\ nexts = Pages
    /\ scrollLeft = 0
    /\ lastCall.at = MaxScroll

\* C2: a movePrevious() at offset 0 commands the offset
\* scrollWidth - clientWidth, and the viewport then goes there and rests
\* there, for every item width > 0 and every layout.
C2_PreviousAtStartWraps ==
    (lastCall.dir = "left" /\ lastCall.at = 0 /\ geo.w > 0) =>
        /\ lastCall.target = MaxScroll
        /\ IF AtRest THEN scrollLeft = MaxScroll ELSE anim = MaxScroll

C2_Witness ==
    /\ lastCall.dir = "left"
    /\ lastCall.at = 0
    /\ MaxScroll > 0
    /\ AtRest
    /\ scrollLeft = MaxScroll
    /\ state = "end"

\* A step that handles a scroll event: the scroll position changes
ScrollStep == scrollLeft' # scrollLeft

\* The boundary state st classifies offset p as the claim words it
Classified(st, p) ==
    /\ st = "start" <=> p = 0
    /\ st = "end" <=> p + geo.cw = geo.sw
    /\ st = "scrolling" <=> (p # 0 /\ p + geo.cw # geo.sw)

\* The same, with "start" going first where both ends coincide
ClassifiedStartFirst(st, p) ==
    /\ st = "start" <=> p = 0
    /\ st = "end" <=> (p # 0 /\ p + geo.cw = geo.sw)
    /\ st = "scrolling" <=> (p # 0 /\ p + geo.cw # geo.sw)

\* C3 as stated: for every offset in [0, scrollWidth - clientWidth] of every
\* layout, scrollWidth = clientWidth included, the state scrolled() sets is
\* "start" iff the offset is 0, "end" iff offset + clientWidth is
\* scrollWidth, and "scrolling" otherwise.
C3_BoundaryAsStated ==
    \A p \in 0..MaxScroll : Classified(BoundaryOf(p), p)

\* C3 amended: the state scrolled() sets, and the state exposed, is "start"
\* iff the offset is 0, "end" iff the offset is not 0 and
\* offset + clientWidth is scrollWidth, and "scrolling" otherwise: where
\* scrollWidth = clientWidth the state is "start", not "end".
C3_BoundaryState ==
    /\ \A p \in 0..MaxScroll : ClassifiedStartFirst(BoundaryOf(p), p)
    /\ ClassifiedStartFirst(state, scrollLeft)

C3_Witness ==
    /\ state = "end"
    /\ MaxScroll > 0
    /\ scrollLeft = MaxScroll
    /\ last.some
    /\ AtRest

\* A step in which the interval callback runs
AdvanceStep == interval = 0 /\ interval' = auto /\ auto' = auto

\* C4: the scheduler calls move() only while paused is false, and then
\* exactly one interval after it last (re)started or advanced: never
\* earlier, and no interval passes without an advance.
C4_PausedNoAdvance ==
    /\ [][AdvanceStep => (~paused /\ auto # 0 /\ sinceActive = auto)]_vars
    /\ [](sinceActive # None => sinceActive <= auto)
    /\ []((auto # 0 /\ ~paused /\ mounted) => sinceActive # None)

C4_Witness ==
    /\ paused
    /\ pausedTimeout = 0
    /\ interval = None
    /\ mounted

ThreeItems == Geometry(3, 1, ItemWidth)

\* The advances the interval has made by now: one per interval elapsed,
\* less the one that is due at this instant and has not run yet
Advanced == IF interval = 0 THEN now \div Auto - 1 ELSE now \div Auto

ItemOffset(i) == (i % 3) * geo.w

C6_Schedule ==
    (geo = ThreeItems /\ now # None /\ now < MaxClock) =>
        /\ ~paused
        /\ interval = 0 => (now > 0 /\ now % Auto = 0)
        /\ IF AtRest
           THEN scrollLeft = ItemOffset(Advanced)
           ELSE /\ anim = ItemOffset(Advanced)
                /\ now < (Advanced + 1) * Auto

\* C6: with 3 items, one to a page, an interval and nobody interacting, the
\* viewport goes from item 0 to item 1 at the first interval, to item 2 at
\* the second, back to item 0 at the third, and every item is rested at
\* again and again for ever.
C6_AutoAdvanceCycle ==
    /\ []C6_Schedule
    /\ geo = ThreeItems =>
         \A i \in 0..2 : []<>(AtRest /\ scrollLeft = ItemOffset(i))

C6_Witness ==
    /\ geo = ThreeItems
    /\ now = 3 * Auto
    /\ AtRest
    /\ scrollLeft = 0
    /\ interval = Auto
    /\ listeners = EmptyBag

\* C7: once unmounted, no timer is pending and no listener of move() is
\* attached.
C7_UnmountCleansUp ==
    ~mounted =>
        /\ interval = None
        /\ pausedTimeout = None
        /\ listeners = EmptyBag

\* move() has a degenerate input: no element, no first child, or a first
\* child of width 0
Degenerate == ~mounted \/ geo.n = 0 \/ geo.w = 0

\* C8: a move() on a degenerate input changes neither the scroll position,
\* the last range, the listeners nor the pause state.
C8_DegenerateMoveNoOp ==
    [][(AdvanceStep /\ Degenerate) =>
        UNCHANGED <<scrollLeft, last, listeners, paused, pausedTimeout>>]_vars

CallRaw == lastCall.at + geo.w * (IF lastCall.dir = "left" THEN -1 ELSE 1)

\* C9 as stated: every offset move() commands is in
\* [0, scrollWidth - clientWidth]; a raw target below 0 becomes
\* scrollWidth - clientWidth, one above it becomes 0, any other is used
\* unchanged.
C9_TargetWrapsRaw ==
    lastCall.dir # "none" =>
        /\ lastCall.target \in 0..MaxScroll
        /\ CallRaw < 0 => lastCall.target = MaxScroll
        /\ CallRaw > MaxScroll => lastCall.target = 0
        /\ CallRaw \in 0..MaxScroll => lastCall.target = CallRaw

\* C9 amended: every offset move() commands is in
\* [0, scrollWidth - clientWidth]; the raw target is first rounded to a whole
\* pixel (a tie going up), and it is the rounded target that becomes
\* scrollWidth - clientWidth when below 0, 0 when above
\* scrollWidth - clientWidth, and is used as it is otherwise.
C9_TargetWrapsRounded ==
    lastCall.dir # "none" =>
        /\ lastCall.target \in 0..MaxScroll
        /\ Round(CallRaw) < 0 => lastCall.target = MaxScroll
        /\ Round(CallRaw) > MaxScroll => lastCall.target = 0
        /\ Round(CallRaw) \in 0..MaxScroll => lastCall.target = Round(CallRaw)

C9_Witness ==
    /\ lastCall.dir = "left"
    /\ CallRaw < 0
    /\ Round(CallRaw) = 0
    /\ lastCall.target = 0
    /\ MaxScroll > 0

\* C10 as stated: whenever no commanded scroll is in flight, right after
\* mount and after native scrolling included, last.from = last.to =
\* scrollLeft; and always last.from <= last.to.
C10_RestRangeAsStated ==
    /\ AtRest => (last.some /\ last = Range(scrollLeft, scrollLeft))
    /\ last.from <= last.to

\* C10 amended: last is null from mount to the first move(); once set,
\* last.from <= last.to always; a scroll event at which a listener of move()
\* finds its offset reached leaves last.from = last.to = scrollLeft; any
\* other scroll event, native scrolling included, leaves last as it was.
C10_RangeOrderedCollapsed ==
    /\ [](last.some => last.from <= last.to)
    /\ [](~last.some => listeners = EmptyBag)
    /\ [][ScrollStep =>
            IF Reached(scrollLeft') # {}
            THEN last' = Range(scrollLeft', scrollLeft')
            ELSE last' = last]_vars

C10_Witness ==
    /\ AtRest
    /\ last = Range(scrollLeft, scrollLeft)
    /\ scrollLeft > 0
    /\ listeners = EmptyBag
    /\ ~paused
    /\ mounted

\* C11: while a smooth scroll is in flight, a scroll event collapses the
\* last range only where the scroll position rounds to the offset of the
\* latest move(), the one the scroll in flight is going to: the listener of
\* a move() that a later move() has overtaken never collapses the range the
\* later one set.
C11_CollapseOnlyAtLatestTarget ==
    [][(ScrollStep /\ anim # None /\ last' # last) =>
        Round(scrollLeft') = anim]_vars

\* C12: whenever the viewport is at rest at the offset of the latest move(),
\* no listener of any move() is still attached, whether that move() had its
\* offset at the scroll position already or was overtaken by a later one.
C12_ListenersRemovedAtRest ==
    (AtRest /\ lastCall # NoCall /\ scrollLeft = lastCall.target) =>
        listeners = EmptyBag

\* C13: in every state the browser holds at most one live interval and at
\* most one pending timeout of the carousel: the interval is the one the
\* effect's last run started and the timeout the one pausedTimeout.current
\* names, so a timeout that interacted() has replaced is not there to fire.
C13_SingleLiveToken ==
    /\ BagCardinality(intervals) <= 1
    /\ BagCardinality(timeouts) <= 1
    /\ intervals = SetToBag(Owned)
    /\ timeouts = SetToBag(Named)

C13_Witness ==
    /\ mounted
    /\ auto # 0
    /\ paused
    /\ timeouts = SetToBag({Cooldown(auto)})
    /\ intervals = EmptyBag
    /\ BagCardinality(listeners) >= 2
    /\ anim # None

\* A click on a button that calls move()
ClickStep ==
    /\ BagCardinality(listeners') > BagCardinality(listeners)
    /\ ~AdvanceStep

\* A step in which interacted() runs with an interval configured
Interaction ==
    /\ auto # 0
    /\ \/ ClickStep
       \/ ScrollStep /\ HasChild /\ UserScrolled(scrollLeft')

\* C14: a cooldown timeout is pending only while paused is true; an
\* interaction, also one while paused already, leaves paused true and one
\* timeout pending, due 2 x auto later; with an interval configured paused
\* becomes false only as the timeout of the latest interaction expires,
\* 2 x auto after that interaction and no earlier, leaving no timeout
\* pending; and a mounted carousel is paused for no longer than that.
C14_PauseState ==
    /\ [](timeouts # EmptyBag => paused)
    /\ [][Interaction =>
            /\ paused'
            /\ timeouts' = SetToBag({2 * auto})
            /\ sinceInteracted' = 0]_vars
    /\ [][(paused /\ ~paused' /\ auto # 0) =>
            /\ sinceInteracted = 2 * auto
            /\ timeouts' = EmptyBag]_vars
    /\ []((paused /\ mounted) =>
            (sinceInteracted # None /\ sinceInteracted <= 2 * Auto))

C14_Witness ==
    /\ paused
    /\ mounted
    /\ auto # 0
    /\ sinceInteracted = 2 * auto
    /\ timeouts = SetToBag({0})
    /\ BagCardinality(listeners) >= 2

\* C15: while the carousel is mounted an auto-scroll interval is live
\* exactly when auto is set and paused is false; a step that makes this so,
\* a cooldown expiring or auto being set, starts the interval with its
\* whole period to run, and a step that ends it leaves no interval; the
\* interval fires one whole period after it was started or last fired.
C15_TimerLiveIffActive ==
    /\ [](mounted => (intervals # EmptyBag <=> (auto # 0 /\ ~paused)))
    /\ [][(mounted' /\ auto' # 0 /\ ~paused' /\ (auto = 0 \/ paused)) =>
            /\ intervals' = SetToBag({<<auto', auto'>>})
            /\ sinceActive' = 0]_vars
    /\ [][(mounted /\ auto # 0 /\ ~paused /\ (auto' = 0 \/ paused')) =>
            intervals' = EmptyBag]_vars
    /\ [][AdvanceStep =>
            (intervals = SetToBag({<<0, auto>>}) /\ sinceActive = auto)]_vars

C15_Witness ==
    /\ mounted
    /\ auto # 0
    /\ ~paused
    /\ intervals = SetToBag({<<0, auto>>})
    /\ sinceActive = auto
    /\ sinceInteracted = None
    /\ last.some
    /\ 2 * scrollLeft > 2 * last.to + geo.w
    /\ AtRest

\* A scroll event that scrolled() takes for the user's
UserScrollStep == ScrollStep /\ HasChild /\ UserScrolled(scrollLeft')

\* C16 as stated: with auto null, a scroll event taken for the user's
\* leaves paused true, and no interval is there to call move().
C16_NullIntervalTracksPause ==
    [][/\ (auto = 0 /\ UserScrollStep) => paused'
       /\ auto = 0 => ~AdvanceStep]_vars

\* C16 amended: with auto null, interacted() does nothing: a scroll event
\* taken for the user's leaves paused and the cooldown timeout as they
\* were, and no interval is there to call move().
C16_NullIntervalNoGate ==
    /\ [][(auto = 0 /\ UserScrollStep) =>
            UNCHANGED <<paused, pausedTimeout, timeouts, sinceInteracted>>]_vars
    /\ [](auto = 0 => (intervals = EmptyBag /\ interval = None))
    /\ [][auto = 0 => ~AdvanceStep]_vars

C16_Witness ==
    /\ mounted
    /\ auto = 0
    /\ ~paused
    /\ timeouts = EmptyBag
    /\ sinceInteracted = None
    /\ last.some
    /\ 2 * scrollLeft > 2 * last.to + geo.w
    /\ AtRest

\* A step of the user: a click on a button or a scroll
UserStep == ClickPrevious \/ ClickNext \/ UserScroll

\* C17: with an interval configured, in every run in which the user's
\* clicks and scrolls come to an end (and the scroll listeners stay within
\* MaxListeners), paused is false again and again and the interval calls
\* move("right") again and again.
C17_PauseNotPermanent ==
    (<>[][~UserStep]_vars /\ []<>CanMove) =>
        ([]<>(~paused) /\ []<><<AdvanceStep>>_vars)

C17_Witness ==
    /\ mounted
    /\ auto # 0
    /\ ~paused
    /\ timeouts = EmptyBag
    /\ sinceInteracted = None
    /\ sinceActive = 0
    /\ scrollLeft % Sub # 0
    /\ anim # None
    /\ last = Range(scrollLeft, anim)

\* C18: with an interval configured and neither clicks nor scrolls of the
\* user, paused is false in every state, also where move() wraps around and
\* where the interval fires before the smooth scroll before has ended.
C18_AutoNeverPausesItself == ~paused

\* C19: with an interval configured, a click on Previous or Next leaves
\* paused true, no interval live and one cooldown timeout pending, due
\* 2 x auto after the click, and leaves the last range spanning the scroll
\* it commands; the interval calls move() only when no cooldown is running,
\* and a cooldown ends no earlier than 2 x auto after the latest click.
C19_ClickPausesBeforeMove ==
    /\ [][(ClickStep /\ auto # 0) =>
            /\ paused'
            /\ timeouts' = SetToBag({2 * auto})
            /\ sinceInteracted' = 0
            /\ intervals' = EmptyBag
            /\ scrollLeft' = scrollLeft
            /\ anim' # None =>
                last' = Range(Min(scrollLeft, anim'), Max(scrollLeft, anim'))]_vars
    /\ [][AdvanceStep => (~paused /\ sinceInteracted = None)]_vars
    /\ [][(sinceInteracted # None /\ sinceInteracted' = None) =>
            sinceInteracted = 2 * Auto]_vars

C19_Witness ==
    /\ mounted
    /\ auto # 0
    /\ paused
    /\ sinceInteracted = 0
    /\ timeouts = SetToBag({2 * auto})
    /\ intervals = EmptyBag
    /\ anim # None
    /\ last = Range(Min(scrollLeft, anim), Max(scrollLeft, anim))
    /\ BagCardinality(listeners) >= 2

====
